---------------------------- MODULE Spec2Model ----------------------------
(***************************************************************************)
(* Model of the KDP auditor backend's estimation services.                 *)
(*                                                                         *)
(* services/bsr_calculator.py (class BSRCalculator):                       *)
(*   calculate_sales_estimates, _interpolate_sales, the two extrapolation  *)
(*   helpers, get_bsr_for_target_sales and get_sales_trend_analysis.       *)
(* services/keyword_service.py (class KeywordService): analyze_keyword and *)
(*   the scoring functions it calls.                                       *)
(* services/amazon_service.py (class AmazonService): _make_request.        *)
(*                                                                         *)
(* Numbers.  The code computes in binary floating point with math.log10    *)
(* and 10 ** x.  Here a float is a decimal floating-point value            *)
(*   [m, e]  standing for  m * 10^(e-8),  One <= m < 10*One  (9 digits),   *)
(* a logarithm is a fixed-point integer with LogBits fraction bits, and    *)
(* log10 / 10**x are computed bit by bit from the tables of 10^(2^-i) and  *)
(* 10^(-2^-i).  The relative error of every operation is about 1e-8; the   *)
(* code's is about 1e-16.  Values returned to the caller are rounded to    *)
(* two decimals by the code and are integers in cents here.  Table values  *)
(* are integers in units of 1e-4 sales/day.                                *)
(***************************************************************************)
EXTENDS Integers, Sequences, FiniteSets, TLC

VARIABLES book, est_call, est_prev, inv, trend_in, trend_out,
          now, keywords, kw_call, fresh_call, score_call, threads,
          request

bsr_vars == <<book, est_call, est_prev, inv, trend_in, trend_out>>
kw_vars == <<now, keywords, kw_call, fresh_call, score_call, threads>>
amazon_vars == <<request>>
vars == <<book, est_call, est_prev, inv, trend_in, trend_out,
          now, keywords, kw_call, fresh_call, score_call, threads,
          request>>

---------------------------------------------------------------------------
(* Fixed-point arithmetic standing for the float operations of the code.   *)

One == 100000000
LogBits == 27
LogOne == 2^LogBits
UnitExp == 4

\* 10^(2^-i) * One, i = 1..LogBits
Pow10Frac ==
  << 316227766, 177827941, 133352143, 115478198, 107460783, 103663293,
     101815172, 100903504, 100450736, 100225115, 100112494, 100056231,
     100028112, 100014055, 100007027, 100003514, 100001757, 100000878,
     100000439, 100000220, 100000110, 100000055, 100000027, 100000014,
     100000007, 100000003, 100000002 >>

\* 10^(-(2^-i)) * One, i = 1..LogBits
InvPow10Frac ==
  << 31622777, 56234133, 74989421, 86596432, 93057204, 96466162,
     98217189, 99104586, 99551286, 99775391, 99887632, 99943800,
     99971896, 99985947, 99992973, 99996487, 99998243, 99999122,
     99999561, 99999780, 99999890, 99999945, 99999973, 99999986,
     99999993, 99999997, 99999998 >>

\* round(a * b / One) for mantissas a, b with a * b / One < 10 * One,
\* computed on 4-digit limbs so that no intermediate exceeds 2^31
MulMant(a, b) ==
  LET h1 == a \div 10000
      l1 == a % 10000
      h2 == b \div 10000
      l2 == b % 10000
      x  == h1 * l2 + l1 * h2 + ((l1 * l2 + 50000000) \div 10000)
  IN  h1 * h2 + (x \div 10000)

\* floor(a * b / LogOne) for 0 <= a, b <= LogOne
MulFix(a, b) ==
  LET ah == a \div 16384
      al == a % 16384
      bh == b \div 16384
      bl == b % 16384
  IN  2 * ah * bh + ((ah * bl + al * bh + ((al * bl) \div 16384)) \div 8192)

\* a * b / LogOne for 0 <= a <= LogOne and any sign of b
SMulFix(a, b) == IF b >= 0 THEN MulFix(a, b) ELSE 0 - MulFix(a, 0 - b)

RECURSIVE DivFixIter(_, _, _, _)
DivFixIter(q, r, d, i) ==
  IF i = 0 THEN q
  ELSE IF 2 * r >= d THEN DivFixIter(2 * q + 1, 2 * r - d, d, i - 1)
       ELSE DivFixIter(2 * q, 2 * r, d, i - 1)

\* floor(x * LogOne / d) for 0 <= x <= d, d > 0 (a float quotient in [0, 1])
DivFix(x, d) == DivFixIter(x \div d, x % d, d, LogBits)

RECURSIVE LogMantIter(_, _, _)
LogMantIter(m, f, i) ==
  IF i > LogBits THEN f
  ELSE IF m >= Pow10Frac[i]
       THEN LogMantIter(MulMant(m, InvPow10Frac[i]), f + 2^(LogBits - i), i + 1)
       ELSE LogMantIter(m, f, i + 1)

\* log10 of the mantissa m / One in [1, 10), as a fraction of LogOne
LogMant(m) == LogMantIter(m, 0, 1)

RECURSIVE ExpFracIter(_, _, _)
ExpFracIter(m, f, i) ==
  IF i > LogBits THEN m
  ELSE IF (f \div 2^(LogBits - i)) % 2 = 1
       THEN ExpFracIter(MulMant(m, Pow10Frac[i]), f, i + 1)
       ELSE ExpFracIter(m, f, i + 1)

RECURSIVE NumDigits(_)
NumDigits(n) == IF n < 10 THEN 0 ELSE 1 + NumDigits(n \div 10)

\* math.log10(n) for a positive integer n < 10^9
Log10Int(n) ==
  LET k == NumDigits(n) IN k * LogOne + LogMant(n * 10^(8 - k))

\* math.log10(u * 1e-4) for a table value of u units
Log10Units(u) == Log10Int(u) - UnitExp * LogOne

\* 10 ** (x / LogOne) as a decimal float
Exp10(x) ==
  LET e == x \div LogOne
      m == ExpFracIter(One, x % LogOne, 1)
  IN  IF m >= 10 * One THEN [m |-> One, e |-> e + 1] ELSE [m |-> m, e |-> e]

FloatZero == [m |-> 0, e |-> 0]

\* round_half_even(n / 10^k + tail), 0 <= tail < 1, tail > 0 iff sticky
RoundDiv(n, k, sticky) ==
  LET p == 10^k
      q == n \div p
      r == n % p
  IN  IF 2 * r > p \/ (2 * r = p /\ sticky) THEN q + 1
      ELSE IF 2 * r < p THEN q
      ELSE IF q % 2 = 0 THEN q ELSE q + 1

\* round(x * c, 2) in cents, for the float x = [m, e] < 10^4 and c = 10^j * c3,
\* c3 in 1..3: round_half_even(m * c3 / 10^k), k = 6 - e - j >= 2
RoundCents(x, c3, j) ==
  LET k  == 6 - x.e - j
      a  == x.m \div 100
      b  == x.m % 100
      n1 == a * c3 + ((b * c3) \div 100)
      r2 == (b * c3) % 100
  IN  IF x.m = 0 \/ k > 11 THEN 0
      ELSE IF k = 2
           THEN IF r2 > 50 THEN n1 + 1
                ELSE IF r2 < 50 THEN n1
                ELSE IF n1 % 2 = 0 THEN n1 ELSE n1 + 1
           ELSE RoundDiv(n1, k - 2, r2 > 0)

---------------------------------------------------------------------------
(* BSRCalculator.__init__: conversion tables, values in units of 1e-4.     *)

\* mutant: the amazon.com ebook value at anchor 10 equal to that at anchor 1
conversion_tables_flat ==
  [ x \in {"amazon.com", "amazon.co.uk"} |->
    IF x = "amazon.com"
    THEN [ y \in {"ebook", "paperback", "hardcover"} |->
           IF y = "ebook"
           THEN (1 :> 50000000 @@ 10 :> 50000000 @@ 100 :> 3000000 @@
                 1000 :> 500000 @@ 10000 :> 80000 @@ 100000 :> 10000 @@
                 1000000 :> 1000)
           ELSE IF y = "paperback"
           THEN (1 :> 20000000 @@ 10 :> 6000000 @@ 100 :> 1200000 @@
                 1000 :> 200000 @@ 10000 :> 30000 @@ 100000 :> 5000 @@
                 1000000 :> 500)
           ELSE (1 :> 10000000 @@ 10 :> 3000000 @@ 100 :> 600000 @@
                 1000 :> 100000 @@ 10000 :> 15000 @@ 100000 :> 2500 @@
                 1000000 :> 250) ]
    ELSE [ y \in {"ebook", "paperback", "hardcover"} |->
           IF y = "ebook"
           THEN (1 :> 15000000 @@ 10 :> 4500000 @@ 100 :> 900000 @@
                 1000 :> 150000 @@ 10000 :> 24000 @@ 100000 :> 3000 @@
                 1000000 :> 300)
           ELSE IF y = "paperback"
           THEN (1 :> 6000000 @@ 10 :> 1800000 @@ 100 :> 360000 @@
                 1000 :> 60000 @@ 10000 :> 9000 @@ 100000 :> 1500 @@
                 1000000 :> 150)
           ELSE (1 :> 3000000 @@ 10 :> 900000 @@ 100 :> 180000 @@
                 1000 :> 30000 @@ 10000 :> 4500 @@ 100000 :> 750 @@
                 1000000 :> 75) ] ]

conversion_tables ==
  [ x \in {"amazon.com", "amazon.co.uk"} |->
    IF x = "amazon.com"
    THEN [ y \in {"ebook", "paperback", "hardcover"} |->
           IF y = "ebook"
           THEN (1 :> 50000000 @@ 10 :> 15000000 @@ 100 :> 3000000 @@
                 1000 :> 500000 @@ 10000 :> 80000 @@ 100000 :> 10000 @@
                 1000000 :> 1000)
           ELSE IF y = "paperback"
           THEN (1 :> 20000000 @@ 10 :> 6000000 @@ 100 :> 1200000 @@
                 1000 :> 200000 @@ 10000 :> 30000 @@ 100000 :> 5000 @@
                 1000000 :> 500)
           ELSE (1 :> 10000000 @@ 10 :> 3000000 @@ 100 :> 600000 @@
                 1000 :> 100000 @@ 10000 :> 15000 @@ 100000 :> 2500 @@
                 1000000 :> 250) ]
    ELSE [ y \in {"ebook", "paperback", "hardcover"} |->
           IF y = "ebook"
           THEN (1 :> 15000000 @@ 10 :> 4500000 @@ 100 :> 900000 @@
                 1000 :> 150000 @@ 10000 :> 24000 @@ 100000 :> 3000 @@
                 1000000 :> 300)
           ELSE IF y = "paperback"
           THEN (1 :> 6000000 @@ 10 :> 1800000 @@ 100 :> 360000 @@
                 1000 :> 60000 @@ 10000 :> 9000 @@ 100000 :> 1500 @@
                 1000000 :> 150)
           ELSE (1 :> 3000000 @@ 10 :> 900000 @@ 100 :> 180000 @@
                 1000 :> 30000 @@ 10000 :> 4500 @@ 100000 :> 750 @@
                 1000000 :> 75) ] ]

\* dict.get(key, default)
DictGet(d, key, default) == IF key \in DOMAIN d THEN d[key] ELSE default

SetMin(S) == CHOOSE x \in S : \A y \in S : x <= y

RECURSIVE SortedSeq(_)
\* sorted(keys)
SortedSeq(S) ==
  IF S = {} THEN <<>> ELSE <<SetMin(S)>> \o SortedSeq(S \ {SetMin(S)})

\* max(sales, 0.001) of a table value in units
FloorUnits == 10
MaxUnits(u) == IF u > FloorUnits THEN u ELSE FloorUnits

---------------------------------------------------------------------------
(* Python values passed as the rank: an int, or None.                      *)

PyInt(n) == <<"int", n>>
PyNone == <<"NoneType", 0>>
IsInt(v) == v[1] = "int"

Raised == [exc |-> TRUE, m |-> 0, e |-> 0]
Returned(x) == [exc |-> FALSE, m |-> x.m, e |-> x.e]

\* _extrapolate_high_performance: known_sales * (known_bsr / bsr) ** 0.7
extrapolate_high_performance(bsr, known_bsr, known_sales) ==
  LET log_ratio == Log10Int(known_bsr) - Log10Int(bsr)
  IN  Exp10(Log10Units(known_sales) + (log_ratio * 7) \div 10)

\* mutant: the decay applied as growth, known_sales * ratio ** 0.8
extrapolate_low_growth(bsr, known_bsr, known_sales) ==
  LET log_ratio == Log10Int(bsr) - Log10Int(known_bsr)
  IN  Exp10(Log10Units(known_sales) + (log_ratio * 4) \div 5)

\* _extrapolate_low_performance: known_sales / (bsr / known_bsr) ** 0.8
extrapolate_low_performance(bsr, known_bsr, known_sales) ==
  LET log_ratio == Log10Int(bsr) - Log10Int(known_bsr)
  IN  Exp10(Log10Units(known_sales) - (log_ratio * 4) \div 5)

RECURSIVE InterpolateLoopStrict(_, _, _, _)
\* mutant: the bracket test written lower_bsr < bsr <= upper_bsr
InterpolateLoopStrict(bsr, bsr_points, conversion_table, i) ==
  IF i > Len(bsr_points) - 1 THEN FloatZero
  ELSE
    LET lower_bsr == bsr_points[i]
        upper_bsr == bsr_points[i + 1]
    IN  IF lower_bsr < bsr /\ bsr <= upper_bsr
        THEN
          LET ratio == DivFix(Log10Int(bsr) - Log10Int(lower_bsr),
                              Log10Int(upper_bsr) - Log10Int(lower_bsr))
              log_lower_sales ==
                Log10Units(MaxUnits(conversion_table[lower_bsr]))
              log_upper_sales ==
                Log10Units(MaxUnits(conversion_table[upper_bsr]))
          IN  Exp10(log_lower_sales
                    + SMulFix(ratio, log_upper_sales - log_lower_sales))
        ELSE InterpolateLoopStrict(bsr, bsr_points, conversion_table, i + 1)

RECURSIVE InterpolateLoop(_, _, _, _)
\* the for loop of _interpolate_sales over range(len(bsr_points) - 1)
InterpolateLoop(bsr, bsr_points, conversion_table, i) ==
  IF i > Len(bsr_points) - 1 THEN FloatZero
  ELSE
    LET lower_bsr == bsr_points[i]
        upper_bsr == bsr_points[i + 1]
    IN  IF lower_bsr <= bsr /\ bsr <= upper_bsr
        THEN
          LET lower_sales == conversion_table[lower_bsr]
              upper_sales == conversion_table[upper_bsr]
              log_bsr == Log10Int(bsr)
              log_lower == Log10Int(lower_bsr)
              log_upper == Log10Int(upper_bsr)
              ratio == DivFix(log_bsr - log_lower, log_upper - log_lower)
              log_lower_sales == Log10Units(MaxUnits(lower_sales))
              log_upper_sales == Log10Units(MaxUnits(upper_sales))
              log_sales == log_lower_sales
                           + SMulFix(ratio, log_upper_sales - log_lower_sales)
          IN  Exp10(log_sales)
        ELSE InterpolateLoop(bsr, bsr_points, conversion_table, i + 1)

\* _interpolate_sales on an int rank
InterpolateInt(bsr, conversion_table) ==
  IF bsr <= 0 THEN FloatZero
  ELSE
    LET bsr_points == SortedSeq(DOMAIN conversion_table)
        first == bsr_points[1]
        last == bsr_points[Len(bsr_points)]
    IN  IF bsr < first
        THEN extrapolate_high_performance(bsr, first, conversion_table[first])
        ELSE IF bsr > last
        THEN extrapolate_low_performance(bsr, last, conversion_table[last])
        ELSE InterpolateLoop(bsr, bsr_points, conversion_table, 1)

\* _interpolate_sales: `bsr <= 0` raises TypeError when bsr is None
interpolate_sales(bsr, conversion_table) ==
  IF ~IsInt(bsr) THEN Raised
  ELSE Returned(InterpolateInt(bsr[2], conversion_table))

\* mutant: one default table for every unrecognized combination
SelectDefaultTable(book_type, marketplace) ==
  IF marketplace \in DOMAIN conversion_tables
     /\ book_type \in DOMAIN conversion_tables[marketplace]
  THEN conversion_tables[marketplace][book_type]
  ELSE conversion_tables["amazon.com"]["ebook"]

\* the table selected by lines 92-93 / 182-183
SelectTable(book_type, marketplace) ==
  LET marketplace_table ==
        DictGet(conversion_tables, marketplace, conversion_tables["amazon.com"])
  IN  DictGet(marketplace_table, book_type, marketplace_table["ebook"])

\* mutant: the exception propagates to the caller
EstimateReraise == [raised |-> TRUE, daily |-> 0, monthly |-> 0]

\* what the except clause of calculate_sales_estimates does with an exception
EstimateHandler == [raised |-> FALSE, daily |-> 0, monthly |-> 0]

\* mutant: monthly_sales = daily_sales * 3
calculate_sales_estimates_3(bsr, book_type, marketplace) ==
  LET book_type_table == SelectTable(book_type, marketplace)
      daily_sales == interpolate_sales(bsr, book_type_table)
  IN  IF daily_sales.exc THEN EstimateHandler
      ELSE [raised |-> FALSE,
            daily |-> RoundCents(daily_sales, 1, 0),
            monthly |-> RoundCents(daily_sales, 3, 0)]

\* calculate_sales_estimates: (daily, monthly) in cents
calculate_sales_estimates(bsr, book_type, marketplace) ==
  LET book_type_table == SelectTable(book_type, marketplace)
      daily_sales == interpolate_sales(bsr, book_type_table)
  IN  IF daily_sales.exc THEN EstimateHandler
      ELSE [raised |-> FALSE,
            daily |-> RoundCents(daily_sales, 1, 0),
            monthly |-> RoundCents(daily_sales, 3, 1)]

---------------------------------------------------------------------------
(* Comparison of floats, and the floats of 2-decimal amounts.              *)

\* the float of an amount of c >= 0 cents
CentsToFloat(c) ==
  IF c = 0 THEN FloatZero
  ELSE LET k == NumDigits(c) IN [m |-> c * 10^(8 - k), e |-> k - 2]

\* x > y for non-negative floats
FloatGT(x, y) ==
  IF x.m = 0 THEN FALSE
  ELSE IF y.m = 0 THEN TRUE
  ELSE x.e > y.e \/ (x.e = y.e /\ x.m > y.m)

---------------------------------------------------------------------------
(* services/keyword_service.py.  A keyword is the sequence of its           *)
(* characters.  Instants are counted in half days.  A volume is an integer, *)
(* competition_score is in units of 1e-4, opportunity_score in units of     *)
(* 1e-3, a jitter of random.uniform in units of 1e-2.                       *)

TicksPerDay == 2

PyDatetime(t) == <<"datetime", t>>

UpperCase == <<"A", "B", "C", "D", "E", "F", "G", "H", "I", "J", "K", "L", "M", "N", "O", "P", "Q", "R", "S", "T", "U", "V", "W", "X", "Y", "Z">>
LowerCase == <<"a", "b", "c", "d", "e", "f", "g", "h", "i", "j", "k", "l", "m", "n", "o", "p", "q", "r", "s", "t", "u", "v", "w", "x", "y", "z">>

\* str.lower()
LowerChar(c) ==
  IF \E i \in DOMAIN UpperCase : UpperCase[i] = c
  THEN LowerCase[CHOOSE i \in DOMAIN UpperCase : UpperCase[i] = c]
  ELSE c

Lower(s) == [i \in DOMAIN s |-> LowerChar(s[i])]

\* len(s.split()): the number of maximal runs of characters other than
\* white space
WordCount(s) ==
  Cardinality({i \in DOMAIN s : s[i] # " " /\ (i = 1 \/ s[i - 1] = " ")})

\* word in s, for strings: word occurs in s as a substring
Contains(word, s) ==
  \E i \in 0..(Len(s) - Len(word)) : SubSeq(s, i + 1, i + Len(word)) = word

common_words ==
  <<<<"b", "o", "o", "k">>,
    <<"g", "u", "i", "d", "e">>,
    <<"h", "o", "w">>,
    <<"b", "e", "s", "t">>,
    <<"t", "o", "p">>,
    <<"l", "e", "a", "r", "n">>>>

\* mutant: one factor 1.5 for every occurrence of a common word
CommonOccurrences(keyword) ==
  Cardinality({p \in (DOMAIN common_words) \X (0..Len(keyword)) :
                 /\ p[2] + Len(common_words[p[1]]) <= Len(keyword)
                 /\ SubSeq(Lower(keyword), p[2] + 1,
                           p[2] + Len(common_words[p[1]]))
                      = common_words[p[1]]})

\* lines 271-274: the number of factors 1.5 in common_factor, one for every
\* common word that occurs in the lowercased keyword
CommonCount(keyword) ==
  Cardinality({w \in DOMAIN common_words :
                 Contains(common_words[w], Lower(keyword))})

\* line 267: length_factor as [tenths, below]: the float is tenths / 10, or
\* the float next below it: in binary floating point 1.0 - 3 * 0.2 is
\* 0.3999999999999999 and 1.0 - 4 * 0.2 is 0.19999999999999996
LengthFactor(word_count) ==
  IF 10 - (word_count - 1) * 2 > 1
  THEN [tenths |-> 10 - (word_count - 1) * 2, below |-> word_count \in {4, 5}]
  ELSE [tenths |-> 1, below |-> FALSE]

\* line 276: int(base_volume * length_factor * common_factor)
BaseEstimate(keyword) ==
  LET length_factor == LengthFactor(WordCount(keyword))
      k == CommonCount(keyword)
      num == 100 * length_factor.tenths * 3^k
  IN  IF length_factor.below /\ num % (2^k) = 0
      THEN num \div (2^k) - 1
      ELSE num \div (2^k)

\* _estimate_search_volume, with the value random.uniform(0.5, 2.0) returns
estimate_search_volume(keyword, jitter) ==
  LET estimated_volume == (BaseEstimate(keyword) * jitter) \div 100
  IN  IF estimated_volume > 10 THEN estimated_volume ELSE 10

\* mutant: the result is not clamped
calculate_competition_score_unclamped(keyword, jitter) ==
  LET word_count == WordCount(keyword)
      base_competition == IF word_count = 1 THEN 8000
                          ELSE IF word_count = 2 THEN 6000
                          ELSE IF word_count = 3 THEN 4000
                          ELSE 2000
  IN  (base_competition * jitter) \div 100

\* _calculate_competition_score, with the value random.uniform(0.7, 1.3)
\* returns
calculate_competition_score(keyword, jitter) ==
  LET word_count == WordCount(keyword)
      base_competition == IF word_count = 1 THEN 8000
                          ELSE IF word_count = 2 THEN 6000
                          ELSE IF word_count = 3 THEN 4000
                          ELSE 2000
      competition == (base_competition * jitter) \div 100
  IN  IF competition > 10000 THEN 10000
      ELSE IF competition < 0 THEN 0
      ELSE competition

\* math.log10(search_volume) / 4.0 in units of 1e-6
VolumeScoreOf(search_volume) ==
  LET l == Log10Int(search_volume)
      a == (l % LogOne) \div 2^14
      b == (l % LogOne) % 2^14
  IN  (l \div LogOne) * 250000
        + (a * 250000 + ((b \div 2) * 250000) \div 2^13) \div 2^13

\* _calculate_opportunity_score
calculate_opportunity_score(search_volume, competition_score) ==
  IF search_volume <= 0 THEN 0
  ELSE LET q == VolumeScoreOf(search_volume)
           volume_score == IF q < 1000000 THEN q ELSE 1000000
           competition_score_inverted == 10000 - competition_score
           opportunity == volume_score * 6 + competition_score_inverted * 400
       IN  (opportunity + 5000) \div 10000

\* mutant: fresh up to and including max_age_days
is_data_fresh_le(last_updated, max_age_days, utcnow) ==
  IF last_updated = PyNone THEN FALSE
  ELSE (utcnow - last_updated[2]) \div TicksPerDay <= max_age_days

\* _is_data_fresh at the instant utcnow
is_data_fresh(last_updated, max_age_days, utcnow) ==
  IF last_updated = PyNone THEN FALSE
  ELSE (utcnow - last_updated[2]) \div TicksPerDay < max_age_days

DefaultMaxAgeDays == 7

---------------------------------------------------------------------------
(* Inputs.                                                                 *)

Marketplaces == {"amazon.com", "amazon.co.uk", "amazon.de"}
BookTypes == {"ebook", "paperback", "hardcover", "audiobook"}
Books == BookTypes \X Marketplaces

KnownMarketplaces == DOMAIN conversion_tables
KnownBookTypes == DOMAIN conversion_tables["amazon.com"]

\* ranks passed by callers: every anchor, neighbours of anchors, ranks beyond
\* the last anchor, non-positive ranks and a rank that is not a number
PositiveRanks ==
  {1, 2, 10, 11, 100, 999, 1000, 10000, 100000, 1000000, 1000001,
   2000000, 10000000}

\* ranks of the records of a rank history
TrendRanks == {10000, 30000, 50000, 2000000}

\* ranks of the records of a two-record history: those above and a rank
\* whose estimate is within 10 percent of that of 50000
PairRanks == TrendRanks \cup {48000}

IntRanks == PositiveRanks \cup {0, -1}
RankInputs == {PyInt(r) : r \in IntRanks} \cup {PyNone}

\* calculate_sales_estimates is a pure function of its arguments: its value
\* on the inputs above, evaluated once
EstimateOnInts ==
  [mk \in Marketplaces |-> [bt \in BookTypes |->
    [n \in IntRanks \cup PairRanks |->
      calculate_sales_estimates(PyInt(n), bt, mk)]]]

EstimateOnNone ==
  [mk \in Marketplaces |-> [bt \in BookTypes |->
    calculate_sales_estimates(PyNone, bt, mk)]]

EstimateOf(bsr, book_type, marketplace) ==
  IF IsInt(bsr) THEN EstimateOnInts[marketplace][book_type][bsr[2]]
  ELSE EstimateOnNone[marketplace][book_type]

\* keywords passed to the scorer: the empty keyword, one to seven words,
\* upper case, common words inside other words and repeated
KwEmpty == <<>>
KwPython == <<"p", "y", "t", "h", "o", "n">>
KwPythonCapital == <<"P", "y", "t", "h", "o", "n">>
KwBestBook == <<"B", "e", "s", "t", " ", "b", "o", "o", "k">>
KwHowToLearn == <<"h", "o", "w", " ", "t", "o", " ", "l", "e", "a", "r", "n">>
KwLaptop == <<"l", "a", "p", "t", "o", "p">>
KwBookBook == <<"b", "o", "o", "k", " ", "b", "o", "o", "k">>
KwFourWords == <<"a", " ", "b", " ", "c", " ", "d">>
KwFiveWords == <<"a", " ", "b", " ", "c", " ", "d", " ", "e">>
KwSevenWords == <<"a", " ", "b", " ", "c", " ", "d", " ", "e", " ", "f", " ", "g">>
KwTopTenBooks == <<"t", "o", "p", " ", "1", "0", " ", "b", "o", "o", "k", "s">>
KwAllCommon == <<"h", "o", "w", "t", "o", "l", "e", "a", "r", "n", "b", "e", "s", "t", "t", "o", "p", "b", "o", "o", "k", "g", "u", "i", "d", "e">>

ScoreKeywords ==
  {KwEmpty, KwPython, KwPythonCapital, KwBestBook, KwHowToLearn, KwLaptop,
   KwBookBook, KwFourWords, KwFiveWords, KwSevenWords, KwTopTenBooks,
   KwAllCommon}

\* keywords analysed against the keywords table
AnalyzeKeywords == {KwEmpty, KwPython, KwPythonCapital}

\* values of random.uniform(0.5, 2.0) and of random.uniform(0.7, 1.3)
VolumeJitters == {50, 100, 200}
CompetitionJitters == {70, 100, 130}

\* the values drawn in calls of analyze_keyword
AnalyzeJitters == {<<50, 130>>, <<200, 70>>, <<200, 130>>}

\* the clock advances by 3 days or by 3 days and a half
ClockSteps == {6, 7}
MaxNow == 14

\* arguments of _is_data_fresh
MaxAgeDays == {1, DefaultMaxAgeDays, 8}
Timestamps == {PyNone} \cup {PyDatetime(t) : t \in 0..MaxNow}

Threads == {1, 2}
Idle == [pc |-> "idle"]

NoCall == [called |-> FALSE]

\* values of max_retries, 3 the default, and what a GET ends with: a status
\* code, or a requests.RequestException
DefaultMaxRetries == 3
MaxRetries == {-1, 0, 1, 2, DefaultMaxRetries}
Status(status_code) == [raised |-> FALSE, status_code |-> status_code]
RequestException == [raised |-> TRUE]
GetOutcomes ==
  {Status(200), Status(503), Status(404), Status(500), RequestException}
NoRequest == [pc |-> "idle"]

Init ==
  /\ book \in Books
  /\ est_call = NoCall
  /\ est_prev = NoCall
  /\ inv = NoCall
  /\ trend_in = <<>>
  /\ trend_out = NoCall
  /\ now = 0
  /\ keywords = <<>>
  /\ kw_call = NoCall
  /\ fresh_call = NoCall
  /\ score_call = NoCall
  /\ threads = [t \in Threads |-> Idle]
  /\ request = NoRequest

---------------------------------------------------------------------------
(* calculate_sales_estimates, called as routes/kdp_routes.py does: with    *)
(* the current rank and the book's type and marketplace.                   *)

Estimate(bsr) ==
  /\ est_prev' = est_call
  /\ est_call' = [called |-> TRUE,
                  bsr |-> bsr,
                  book_type |-> book[1],
                  marketplace |-> book[2],
                  table |-> SelectTable(book[1], book[2]),
                  ret |-> EstimateOf(bsr, book[1], book[2])]
  /\ UNCHANGED <<book, inv, trend_in, trend_out>>
  /\ UNCHANGED <<kw_vars, amazon_vars>>

NextEstimate == \E bsr \in RankInputs : Estimate(bsr)

SpecEstimate == Init /\ [][NextEstimate]_vars

---------------------------------------------------------------------------
(* get_bsr_for_target_sales: the binary search, one loop iteration per     *)
(* step.  Targets are amounts in cents.  iterations is the number of loop  *)
(* iterations the call has executed.                                       *)

LowStart == 1
HighStart == 10000000

Targets == {0, 5, 800, 30000, 300000, 500000, 600000}

InvStart(target) ==
  /\ ~inv.called
  /\ inv' = [called |-> TRUE,
             pc |-> "loop",
             target |-> target,
             table |-> SelectTable(book[1], book[2]),
             low_bsr |-> LowStart,
             high_bsr |-> HighStart,
             iterations |-> 0,
             ret |-> 0]
  /\ UNCHANGED <<book, est_call, est_prev, trend_in, trend_out>>
  /\ UNCHANGED <<kw_vars, amazon_vars>>

\* mutant: the upper bound moves to one past the midpoint
InvStepHighPastMid ==
  /\ inv.called
  /\ inv.pc = "loop"
  /\ inv.high_bsr - inv.low_bsr > 1
  /\ LET mid_bsr == (inv.low_bsr + inv.high_bsr) \div 2
         estimated_sales == InterpolateInt(mid_bsr, inv.table)
     IN  IF FloatGT(estimated_sales, CentsToFloat(inv.target))
         THEN inv' = [inv EXCEPT !.low_bsr = mid_bsr,
                              !.iterations = @ + 1]
         ELSE inv' = [inv EXCEPT !.high_bsr = mid_bsr + 1,
                              !.iterations = @ + 1]
  /\ UNCHANGED <<book, est_call, est_prev, trend_in, trend_out>>
  /\ UNCHANGED <<kw_vars, amazon_vars>>

\* mutant: the bounds move past the midpoint (low = mid + 1)
InvStepPastMid ==
  /\ inv.called
  /\ inv.pc = "loop"
  /\ inv.high_bsr - inv.low_bsr > 1
  /\ LET mid_bsr == (inv.low_bsr + inv.high_bsr) \div 2
         estimated_sales == InterpolateInt(mid_bsr, inv.table)
     IN  IF FloatGT(estimated_sales, CentsToFloat(inv.target))
         THEN inv' = [inv EXCEPT !.low_bsr = mid_bsr + 1,
                              !.iterations = @ + 1]
         ELSE inv' = [inv EXCEPT !.high_bsr = mid_bsr,
                              !.iterations = @ + 1]
  /\ UNCHANGED <<book, est_call, est_prev, trend_in, trend_out>>
  /\ UNCHANGED <<kw_vars, amazon_vars>>

InvStep ==
  /\ inv.called
  /\ inv.pc = "loop"
  /\ inv.high_bsr - inv.low_bsr > 1
  /\ LET mid_bsr == (inv.low_bsr + inv.high_bsr) \div 2
         estimated_sales == InterpolateInt(mid_bsr, inv.table)
     IN  IF FloatGT(estimated_sales, CentsToFloat(inv.target))
         THEN inv' = [inv EXCEPT !.low_bsr = mid_bsr,
                              !.iterations = @ + 1]
         ELSE inv' = [inv EXCEPT !.high_bsr = mid_bsr,
                              !.iterations = @ + 1]
  /\ UNCHANGED <<book, est_call, est_prev, trend_in, trend_out>>
  /\ UNCHANGED <<kw_vars, amazon_vars>>

\* mutant: return high_bsr
InvReturnHigh ==
  /\ inv.called
  /\ inv.pc = "loop"
  /\ ~(inv.high_bsr - inv.low_bsr > 1)
  /\ inv' = [inv EXCEPT !.pc = "done", !.ret = inv.high_bsr]
  /\ UNCHANGED <<book, est_call, est_prev, trend_in, trend_out>>
  /\ UNCHANGED <<kw_vars, amazon_vars>>

InvReturn ==
  /\ inv.called
  /\ inv.pc = "loop"
  /\ ~(inv.high_bsr - inv.low_bsr > 1)
  /\ inv' = [inv EXCEPT !.pc = "done", !.ret = inv.low_bsr]
  /\ UNCHANGED <<book, est_call, est_prev, trend_in, trend_out>>
  /\ UNCHANGED <<kw_vars, amazon_vars>>

NextInverse ==
  \/ \E target \in Targets : InvStart(target)
  \/ InvStep
  \/ InvReturn

SpecInverse == Init /\ [][NextInverse]_vars
---------------------------------------------------------------------------
(* get_sales_trend_analysis.  Daily sales are in cents; a quotient of the   *)
(* code (an average, change_percent) is the exact fraction [num, den].      *)

MaxHistory == 4
MaxTime == 4

TrendBooks == {<<"ebook", "amazon.com">>, <<"hardcover", "amazon.co.uk">>}

Frac(n, d) == [num |-> n, den |-> d]
\* x > c and x < c for a fraction x with den > 0 and an integer c
FracGT(x, c) == x.num > c * x.den
FracLT(x, c) == x.num < c * x.den

RECURSIVE SeqSum(_)
SeqSum(q) == IF q = <<>> THEN 0 ELSE q[1] + SeqSum(Tail(q))

SeqMax(q) == CHOOSE x \in {q[i] : i \in DOMAIN q} :
               \A y \in {q[i] : i \in DOMAIN q} : y <= x
SeqMin(q) == CHOOSE x \in {q[i] : i \in DOMAIN q} :
               \A y \in {q[i] : i \in DOMAIN q} : x <= y

\* insert rec behind every record whose timestamp is not greater
InsertByTimestamp(sorted, rec) ==
  LET n == Cardinality({i \in DOMAIN sorted :
                         sorted[i].timestamp <= rec.timestamp})
  IN  SubSeq(sorted, 1, n) \o <<rec>> \o SubSeq(sorted, n + 1, Len(sorted))

\* mutant: the history is used in the order supplied
Unsorted(h) == h

RECURSIVE SortedByTimestamp(_)
\* sorted(bsr_history, key=lambda x: x['timestamp']), a stable sort
SortedByTimestamp(h) ==
  IF h = <<>> THEN <<>>
  ELSE InsertByTimestamp(SortedByTimestamp(SubSeq(h, 1, Len(h) - 1)),
                         h[Len(h)])

\* lines 221-228: the daily estimate of every record of the sorted history
SalesData(sorted_history) ==
  [i \in DOMAIN sorted_history |->
     EstimateOf(PyInt(sorted_history[i].rank),
                DictGet(sorted_history[i], "book_type", "ebook"),
                DictGet(sorted_history[i], "marketplace", "amazon.com")).daily]

\* mutant: the older sum divided by the length of the whole history
ChangePercentWholeLength(sales_data) ==
  LET n == Len(sales_data)
      recent_sum == sales_data[n] + sales_data[n - 1] + sales_data[n - 2]
      older_avg == IF n > 3
                   THEN Frac(SeqSum(SubSeq(sales_data, 1, n - 3)), n)
                   ELSE Frac(sales_data[1], 1)
  IN  IF older_avg.num > 0
      THEN Frac((recent_sum * older_avg.den - 3 * older_avg.num) * 100,
                3 * older_avg.num)
      ELSE Frac(0, 1)

\* mutant: a rise from a baseline of 0 counted as a change of 100 percent
ChangePercentFromZero(sales_data) ==
  LET n == Len(sales_data)
      recent_sum == sales_data[n] + sales_data[n - 1] + sales_data[n - 2]
      older_avg == IF n > 3
                   THEN Frac(SeqSum(SubSeq(sales_data, 1, n - 3)), n - 3)
                   ELSE Frac(sales_data[1], 1)
  IN  IF older_avg.num > 0
      THEN Frac((recent_sum * older_avg.den - 3 * older_avg.num) * 100,
                3 * older_avg.num)
      ELSE IF recent_sum > 0 THEN Frac(100, 1)
      ELSE Frac(0, 1)

\* lines 232-235: recent_avg, older_avg and change_percent
ChangePercent(sales_data) ==
  LET n == Len(sales_data)
      recent_sum == sales_data[n] + sales_data[n - 1] + sales_data[n - 2]
      older_avg == IF n > 3
                   THEN Frac(SeqSum(SubSeq(sales_data, 1, n - 3)), n - 3)
                   ELSE Frac(sales_data[1], 1)
  IN  IF older_avg.num > 0
      THEN Frac((recent_sum * older_avg.den - 3 * older_avg.num) * 100,
                3 * older_avg.num)
      ELSE Frac(0, 1)

\* mutant: the labels of the two directions exchanged
TrendOfExchanged(sales_data) ==
  IF Len(sales_data) >= 3
  THEN LET change_percent == ChangePercent(sales_data)
       IN  IF FracGT(change_percent, 10) THEN "declining"
           ELSE IF FracLT(change_percent, -10) THEN "improving"
           ELSE "stable"
  ELSE IF sales_data[Len(sales_data)] > sales_data[1] THEN "declining"
  ELSE IF sales_data[Len(sales_data)] < sales_data[1] THEN "improving"
  ELSE "stable"

\* mutant: two points compared with the 10 percent thresholds
TrendOfThresholds(sales_data) ==
  IF Len(sales_data) >= 3
  THEN LET change_percent == ChangePercent(sales_data)
       IN  IF FracGT(change_percent, 10) THEN "improving"
           ELSE IF FracLT(change_percent, -10) THEN "declining"
           ELSE "stable"
  ELSE IF 10 * sales_data[Len(sales_data)] > 11 * sales_data[1]
       THEN "improving"
  ELSE IF 10 * sales_data[Len(sales_data)] < 9 * sales_data[1]
       THEN "declining"
  ELSE "stable"

\* lines 231-250: the trend label
TrendOf(sales_data) ==
  IF Len(sales_data) >= 3
  THEN LET change_percent == ChangePercent(sales_data)
       IN  IF FracGT(change_percent, 10) THEN "improving"
           ELSE IF FracLT(change_percent, -10) THEN "declining"
           ELSE "stable"
  ELSE IF sales_data[Len(sales_data)] > sales_data[1] THEN "improving"
  ELSE IF sales_data[Len(sales_data)] < sales_data[1] THEN "declining"
  ELSE "stable"

\* mutant: the length test written len(bsr_history) <= 2
get_sales_trend_analysis_le2(bsr_history) ==
  IF Len(bsr_history) <= 2 THEN [trend |-> "insufficient_data"]
  ELSE
    LET sorted_history == SortedByTimestamp(bsr_history)
        sales_data == SalesData(sorted_history)
    IN  [trend |-> TrendOf(sales_data),
         current_daily_sales |-> sales_data[Len(sales_data)],
         average_daily_sales |-> Frac(SeqSum(sales_data), Len(sales_data)),
         best_daily_sales |-> SeqMax(sales_data),
         worst_daily_sales |-> SeqMin(sales_data),
         change_percent |-> ChangePercent(sales_data)]

get_sales_trend_analysis(bsr_history) ==
  IF Len(bsr_history) < 2 THEN [trend |-> "insufficient_data"]
  ELSE
    LET sorted_history == SortedByTimestamp(bsr_history)
        sales_data == SalesData(sorted_history)
    IN  [trend |-> TrendOf(sales_data),
         current_daily_sales |-> sales_data[Len(sales_data)],
         average_daily_sales |-> Frac(SeqSum(sales_data), Len(sales_data)),
         best_daily_sales |-> SeqMax(sales_data),
         worst_daily_sales |-> SeqMin(sales_data),
         change_percent |-> IF Len(sales_data) >= 3
                            THEN ChangePercent(sales_data)
                            ELSE Frac(0, 1)]

\* the caller collects one more rank record of the book, in any order of the
\* timestamps; the records of a book are taken at distinct instants
AddRecord(rank, timestamp) ==
  /\ Len(trend_in) < MaxHistory
  /\ \A i \in DOMAIN trend_in : trend_in[i].timestamp # timestamp
  /\ trend_in' = Append(trend_in,
                        [rank |-> rank,
                         timestamp |-> timestamp,
                         book_type |-> book[1],
                         marketplace |-> book[2]])
  /\ trend_out' = NoCall
  /\ UNCHANGED <<book, est_call, est_prev, inv>>
  /\ UNCHANGED <<kw_vars, amazon_vars>>

Analyze ==
  /\ ~trend_out.called
  /\ trend_out' = [called |-> TRUE,
                   result |-> get_sales_trend_analysis(trend_in)]
  /\ UNCHANGED <<book, est_call, est_prev, inv, trend_in>>
  /\ UNCHANGED <<kw_vars, amazon_vars>>

InitTrend == Init /\ book \in TrendBooks

NextTrend ==
  \/ \E rank \in TrendRanks, timestamp \in 1..MaxTime :
       AddRecord(rank, timestamp)
  \/ Analyze

SpecTrend == InitTrend /\ [][NextTrend]_vars

\* histories of at most two records
NextTrendPair ==
  \/ \E rank \in PairRanks, timestamp \in 1..MaxTime :
       Len(trend_in) < 2 /\ AddRecord(rank, timestamp)
  \/ Analyze

SpecTrendPair == InitTrend /\ [][NextTrendPair]_vars

---------------------------------------------------------------------------
(* A caller that runs the inverse query and then estimates ranks of the     *)
(* same book.                                                               *)

NextLookup ==
  \/ NextInverse
  \/ (inv.called /\ inv.pc = "done" /\ NextEstimate)

SpecLookup == Init /\ [][NextLookup]_vars

---------------------------------------------------------------------------
(* KeywordService: the keywords table is the sequence of its rows, the row  *)
(* of id i at position i.  The unique constraint on keyword_text is tested  *)
(* when an INSERT is committed.                                             *)

ReturnedNone == [none |-> TRUE]

\* Keyword.to_dict
to_dict(row) ==
  [none |-> FALSE,
   id |-> row.id,
   keyword_text |-> row.keyword_text,
   search_volume |-> row.search_volume,
   competition_score |-> row.competition_score,
   opportunity_score |-> row.opportunity_score,
   last_updated |-> row.last_updated]

\* Keyword.query.filter_by(keyword_text=...).first()
QueryFirst(table, key) ==
  LET matching == {i \in DOMAIN table : table[i].keyword_text = key}
  IN  IF matching # {}
      THEN [found |-> TRUE, row |-> table[SetMin(matching)]]
      ELSE [found |-> FALSE]

\* lines 73-75: the fresh analysis
FreshAnalysis(keyword_text, jitter_volume, jitter_competition) ==
  LET search_volume == estimate_search_volume(keyword_text, jitter_volume)
      competition_score ==
        calculate_competition_score(keyword_text, jitter_competition)
  IN  [search_volume |-> search_volume,
       competition_score |-> competition_score,
       opportunity_score |->
         calculate_opportunity_score(search_volume, competition_score)]

\* the row written by lines 78-93
NewRow(table, existing_keyword, key, analysis, utcnow) ==
  [id |-> IF existing_keyword.found THEN existing_keyword.row.id
          ELSE Len(table) + 1,
   keyword_text |-> IF existing_keyword.found
                    THEN existing_keyword.row.keyword_text
                    ELSE key,
   search_volume |-> analysis.search_volume,
   competition_score |-> analysis.competition_score,
   opportunity_score |-> analysis.opportunity_score,
   last_updated |-> PyDatetime(utcnow)]

\* the UPDATE of the row of that id, or the INSERT of a new row
Store(table, row) ==
  IF row.id \in DOMAIN table THEN [table EXCEPT ![row.id] = row]
  ELSE Append(table, row)

\* mutant: the stored record is returned whatever its age
analyze_keyword_cached(table, utcnow, keyword_text, jitter_volume, jitter_competition) ==
  LET key == Lower(keyword_text)
      existing_keyword == QueryFirst(table, key)
  IN  IF existing_keyword.found
      THEN [table |-> table, drawn |-> <<>>,
            ret |-> to_dict(existing_keyword.row)]
      ELSE LET row == NewRow(table, existing_keyword, key,
                             FreshAnalysis(keyword_text, jitter_volume,
                                           jitter_competition),
                             utcnow)
           IN  [table |-> Store(table, row),
                drawn |-> <<jitter_volume, jitter_competition>>,
                ret |-> to_dict(row)]

\* mutant: the record is analysed again on every call
analyze_keyword_uncached(table, utcnow, keyword_text, jitter_volume, jitter_competition) ==
  LET key == Lower(keyword_text)
      existing_keyword == QueryFirst(table, key)
      row == NewRow(table, existing_keyword, key,
                    FreshAnalysis(keyword_text, jitter_volume,
                                  jitter_competition),
                    utcnow)
  IN  [table |-> Store(table, row),
       drawn |-> <<jitter_volume, jitter_competition>>,
       ret |-> to_dict(row)]

\* analyze_keyword run from its first line to its return, with the values
\* the two calls of random.uniform return when they are made; drawn is the
\* sequence of the values drawn
analyze_keyword(table, utcnow, keyword_text, jitter_volume, jitter_competition) ==
  LET key == Lower(keyword_text)
      existing_keyword == QueryFirst(table, key)
  IN  IF existing_keyword.found
         /\ is_data_fresh(existing_keyword.row.last_updated,
                          DefaultMaxAgeDays, utcnow)
      THEN [table |-> table, drawn |-> <<>>,
            ret |-> to_dict(existing_keyword.row)]
      ELSE LET row == NewRow(table, existing_keyword, key,
                             FreshAnalysis(keyword_text, jitter_volume,
                                           jitter_competition),
                             utcnow)
           IN  [table |-> Store(table, row),
                drawn |-> <<jitter_volume, jitter_competition>>,
                ret |-> to_dict(row)]

AnalyzeKeyword(keyword_text, jitter_volume, jitter_competition) ==
  LET result == analyze_keyword(keywords, now, keyword_text, jitter_volume,
                                jitter_competition)
  IN  /\ keywords' = result.table
      /\ kw_call' = [called |-> TRUE,
                     keyword_text |-> keyword_text,
                     utcnow |-> now,
                     drawn |-> result.drawn,
                     ret |-> result.ret]
      /\ UNCHANGED <<now, fresh_call, score_call, threads>>
      /\ UNCHANGED <<bsr_vars, amazon_vars>>

\* time passes
Tick(d) ==
  /\ now + d <= MaxNow
  /\ now' = now + d
  /\ UNCHANGED <<keywords, kw_call, fresh_call, score_call, threads>>
  /\ UNCHANGED <<bsr_vars, amazon_vars>>

InitKeyword == Init /\ book = <<"ebook", "amazon.com">>

NextKeyword ==
  \/ \E keyword_text \in AnalyzeKeywords, jitter \in AnalyzeJitters :
       AnalyzeKeyword(keyword_text, jitter[1], jitter[2])
  \/ \E d \in ClockSteps : Tick(d)

SpecKeyword == InitKeyword /\ [][NextKeyword]_vars

\* _is_data_fresh applied to a timestamp and a window
CheckFresh(last_updated, max_age_days) ==
  /\ fresh_call' = [called |-> TRUE,
                    last_updated |-> last_updated,
                    max_age_days |-> max_age_days,
                    utcnow |-> now,
                    ret |-> is_data_fresh(last_updated, max_age_days, now)]
  /\ UNCHANGED <<now, keywords, kw_call, score_call, threads>>
  /\ UNCHANGED <<bsr_vars, amazon_vars>>

\* the clock advances by half a day
TickHalfDay ==
  /\ now + 1 <= MaxNow + TicksPerDay
  /\ now' = now + 1
  /\ UNCHANGED <<keywords, kw_call, fresh_call, score_call, threads>>
  /\ UNCHANGED <<bsr_vars, amazon_vars>>

NextFresh ==
  \/ \E last_updated \in Timestamps, max_age_days \in MaxAgeDays :
       CheckFresh(last_updated, max_age_days)
  \/ TickHalfDay

SpecFresh == InitKeyword /\ [][NextFresh]_vars

\* the three scoring functions applied to a keyword
ScoreKeyword(keyword, jitter_volume, jitter_competition) ==
  /\ score_call' =
       [called |-> TRUE,
        keyword |-> keyword,
        jitter_volume |-> jitter_volume,
        jitter_competition |-> jitter_competition,
        search_volume |-> estimate_search_volume(keyword, jitter_volume),
        competition_score |->
          calculate_competition_score(keyword, jitter_competition),
        opportunity_score |->
          FreshAnalysis(keyword, jitter_volume,
                        jitter_competition).opportunity_score]
  /\ UNCHANGED <<now, keywords, kw_call, fresh_call, threads>>
  /\ UNCHANGED <<bsr_vars, amazon_vars>>

NextScore ==
  \E keyword \in ScoreKeywords, jitter_volume \in VolumeJitters,
     jitter_competition \in CompetitionJitters :
    ScoreKeyword(keyword, jitter_volume, jitter_competition)

SpecScore == InitKeyword /\ [][NextScore]_vars

---------------------------------------------------------------------------
(* analyze_keyword called from several threads, each with its own session: *)
(* the query and the analysis of one call are one step, its commit and     *)
(* return another.                                                          *)

\* lines 67-91: the query, the freshness test, the analysis and the changes
\* made in the session
KwQuery(t, keyword_text, jitter_volume, jitter_competition) ==
  /\ threads[t].pc = "idle"
  /\ LET key == Lower(keyword_text)
         existing_keyword == QueryFirst(keywords, key)
     IN  IF existing_keyword.found
            /\ is_data_fresh(existing_keyword.row.last_updated,
                             DefaultMaxAgeDays, now)
         THEN threads' = [threads EXCEPT ![t] =
                [pc |-> "done",
                 keyword_text |-> keyword_text,
                 utcnow |-> now,
                 existing_keyword |-> existing_keyword,
                 ret |-> to_dict(existing_keyword.row)]]
         ELSE threads' = [threads EXCEPT ![t] =
                [pc |-> "commit",
                 keyword_text |-> keyword_text,
                 utcnow |-> now,
                 existing_keyword |-> existing_keyword,
                 analysis |-> FreshAnalysis(keyword_text, jitter_volume,
                                            jitter_competition)]]
  /\ UNCHANGED <<now, keywords, kw_call, fresh_call, score_call>>
  /\ UNCHANGED <<bsr_vars, amazon_vars>>

\* mutant: keyword_text without the unique constraint: every commit succeeds
KwCommitUnchecked(t) ==
  /\ threads[t].pc = "commit"
  /\ LET key == Lower(threads[t].keyword_text)
         existing_keyword == threads[t].existing_keyword
         row == NewRow(keywords, existing_keyword, key, threads[t].analysis,
                       IF existing_keyword.found
                       THEN threads[t].utcnow ELSE now)
     IN  /\ keywords' = Store(keywords, row)
         /\ threads' = [threads EXCEPT ![t] =
              [pc |-> "done",
               keyword_text |-> threads[t].keyword_text,
               utcnow |-> threads[t].utcnow,
               existing_keyword |-> existing_keyword,
               ret |-> to_dict(row)]]
  /\ UNCHANGED <<now, kw_call, fresh_call, score_call>>
  /\ UNCHANGED <<bsr_vars, amazon_vars>>

\* lines 93-95: the commit succeeds: the UPDATE of the row read, or the
\* INSERT of a row whose keyword_text is not in the table
KwCommit(t) ==
  /\ threads[t].pc = "commit"
  /\ LET key == Lower(threads[t].keyword_text)
         existing_keyword == threads[t].existing_keyword
     IN  /\ existing_keyword.found \/ ~QueryFirst(keywords, key).found
         /\ LET row == NewRow(keywords, existing_keyword, key,
                              threads[t].analysis,
                              IF existing_keyword.found
                              THEN threads[t].utcnow ELSE now)
            IN  /\ keywords' = Store(keywords, row)
                /\ threads' = [threads EXCEPT ![t] =
                     [pc |-> "done",
                      keyword_text |-> threads[t].keyword_text,
                      utcnow |-> threads[t].utcnow,
                      existing_keyword |-> existing_keyword,
                      ret |-> to_dict(row)]]
  /\ UNCHANGED <<now, kw_call, fresh_call, score_call>>
  /\ UNCHANGED <<bsr_vars, amazon_vars>>

\* lines 93, 97-99: the INSERT violates the unique constraint on
\* keyword_text; the exception is caught and None is returned
KwCommitFails(t) ==
  /\ threads[t].pc = "commit"
  /\ ~threads[t].existing_keyword.found
  /\ QueryFirst(keywords, Lower(threads[t].keyword_text)).found
  /\ threads' = [threads EXCEPT ![t] =
       [pc |-> "done",
        keyword_text |-> threads[t].keyword_text,
        utcnow |-> threads[t].utcnow,
        existing_keyword |-> threads[t].existing_keyword,
        ret |-> ReturnedNone]]
  /\ UNCHANGED <<now, keywords, kw_call, fresh_call, score_call>>
  /\ UNCHANGED <<bsr_vars, amazon_vars>>

NextConcurrent ==
  \/ \E t \in Threads, keyword_text \in AnalyzeKeywords,
        jitter \in AnalyzeJitters :
       KwQuery(t, keyword_text, jitter[1], jitter[2])
  \/ \E t \in Threads : KwCommit(t)
  \/ \E t \in Threads : KwCommitFails(t)
  \/ \E d \in ClockSteps : Tick(d)

SpecConcurrent == InitKeyword /\ [][NextConcurrent]_vars

---------------------------------------------------------------------------
(* AmazonService._make_request: the loop over range(max_retries), one step  *)
(* for every pass.  gets is the sequence of the calls of session.get with   *)
(* what each ended with, slept the arguments of random.uniform in the calls *)
(* of time.sleep.                                                           *)

\* line 28: the call
MakeRequest(max_retries) ==
  /\ request.pc = "idle"
  /\ request' = [pc |-> "loop",
                 max_retries |-> max_retries,
                 attempt |-> 0,
                 gets |-> <<>>,
                 slept |-> <<>>]
  /\ UNCHANGED <<bsr_vars, kw_vars>>

\* the response of the GET of a pass
Response(attempt, status_code) ==
  [none |-> FALSE, attempt |-> attempt, status_code |-> status_code]

\* mutant: the response of the last pass is returned whatever its status
RequestPassReturnsLast(outcome) ==
  /\ request.pc = "loop"
  /\ request.attempt < request.max_retries
  /\ LET attempt == request.attempt
         slept == Append(request.slept, <<1, 3>>)
         gets == Append(request.gets, [attempt |-> attempt,
                                       outcome |-> outcome])
     IN  IF outcome.raised
         THEN request' = [request EXCEPT
                !.attempt = attempt + 1,
                !.gets = gets,
                !.slept = IF attempt < request.max_retries - 1
                          THEN Append(slept, <<2, 5>>)
                          ELSE slept]
         ELSE IF outcome.status_code = 200
                 \/ attempt = request.max_retries - 1
         THEN request' = [pc |-> "done",
                          max_retries |-> request.max_retries,
                          gets |-> gets,
                          slept |-> slept,
                          raised |-> FALSE,
                          ret |-> Response(attempt, outcome.status_code)]
         ELSE IF outcome.status_code = 503
         THEN request' = [request EXCEPT
                !.attempt = attempt + 1,
                !.gets = gets,
                !.slept = Append(slept, <<5, 10>>)]
         ELSE request' = [request EXCEPT
                !.attempt = attempt + 1,
                !.gets = gets,
                !.slept = slept]
  /\ UNCHANGED <<bsr_vars, kw_vars>>

\* lines 30-48: one pass of the loop, the GET ending with outcome
RequestPass(outcome) ==
  /\ request.pc = "loop"
  /\ request.attempt < request.max_retries
  /\ LET attempt == request.attempt
         slept == Append(request.slept, <<1, 3>>)
         gets == Append(request.gets, [attempt |-> attempt,
                                       outcome |-> outcome])
     IN  IF outcome.raised
         THEN request' = [request EXCEPT
                !.attempt = attempt + 1,
                !.gets = gets,
                !.slept = IF attempt < request.max_retries - 1
                          THEN Append(slept, <<2, 5>>)
                          ELSE slept]
         ELSE IF outcome.status_code = 200
         THEN request' = [pc |-> "done",
                          max_retries |-> request.max_retries,
                          gets |-> gets,
                          slept |-> slept,
                          raised |-> FALSE,
                          ret |-> Response(attempt, outcome.status_code)]
         ELSE IF outcome.status_code = 503
         THEN request' = [request EXCEPT
                !.attempt = attempt + 1,
                !.gets = gets,
                !.slept = Append(slept, <<5, 10>>)]
         ELSE request' = [request EXCEPT
                !.attempt = attempt + 1,
                !.gets = gets,
                !.slept = slept]
  /\ UNCHANGED <<bsr_vars, kw_vars>>

\* lines 30, 50: range(max_retries) is exhausted
RequestReturnNone ==
  /\ request.pc = "loop"
  /\ request.attempt >= request.max_retries
  /\ request' = [pc |-> "done",
                 max_retries |-> request.max_retries,
                 gets |-> request.gets,
                 slept |-> request.slept,
                 raised |-> FALSE,
                 ret |-> ReturnedNone]
  /\ UNCHANGED <<bsr_vars, kw_vars>>

NextRequest ==
  \/ \E max_retries \in MaxRetries : MakeRequest(max_retries)
  \/ \E outcome \in GetOutcomes : RequestPass(outcome)
  \/ RequestReturnNone

SpecRequest == InitKeyword /\ [][NextRequest]_vars

---------------------------------------------------------------------------
(* Properties of calculate_sales_estimates.                                 *)

Abs(x) == IF x < 0 THEN 0 - x ELSE x

\* the last call had an int rank that is an anchor of the selected table
AnchorCall ==
  /\ est_call.called
  /\ IsInt(est_call.bsr)
  /\ est_call.bsr[2] \in DOMAIN est_call.table

\* C1 as stated: at every anchor rank the returned daily value is exactly
\* the table's sales-per-day value (daily cents * 100 = table units).
C1_ExactAtAnchors ==
  AnchorCall => est_call.ret.daily * 100 = est_call.table[est_call.bsr[2]]

\* C1 amended: at every anchor rank the returned daily value is the table's
\* value rounded to 2 decimals: equal to it when the table's value has at
\* most 2 decimals, and within 0.005 of it otherwise.
C1_RoundedAtAnchors ==
  AnchorCall =>
    LET u == est_call.table[est_call.bsr[2]]
        d == est_call.ret.daily
    IN  /\ (u % 100 = 0 => d * 100 = u)
        /\ Abs(d * 100 - u) <= 50

C1_Witness ==
  /\ AnchorCall
  /\ est_call.bsr = PyInt(10)
  /\ est_call.table = conversion_tables["amazon.com"]["ebook"]
  /\ est_call.ret.daily = 150000

PositiveCall(c) == c.called /\ IsInt(c.bsr) /\ c.bsr[2] > 0

\* C2: for two calls on the same book type and marketplace with positive
\* ranks r1 < r2, daily(r1) >= daily(r2).
C2_Monotone ==
  (/\ PositiveCall(est_prev)
   /\ PositiveCall(est_call)
   /\ est_prev.book_type = est_call.book_type
   /\ est_prev.marketplace = est_call.marketplace
   /\ est_prev.bsr[2] < est_call.bsr[2])
  => est_prev.ret.daily >= est_call.ret.daily

\* ranks on both sides of an anchor, the later one beyond the last anchor
C2_Witness ==
  /\ PositiveCall(est_prev)
  /\ PositiveCall(est_call)
  /\ est_prev.bsr[2] = 999
  /\ est_call.bsr[2] = 2000000
  /\ est_prev.ret.daily > est_call.ret.daily
  /\ est_call.ret.daily > 0

\* C5 as stated: the returned monthly value is the returned daily value
\* times 30, exactly.
C5_MonthlyIsDailyTimes30 ==
  est_call.called => est_call.ret.monthly = est_call.ret.daily * 30

\* C5 amended: the monthly value is 30 times the unrounded daily value,
\* rounded to 2 decimals on its own, so it is within 0.15 of 30 times the
\* returned daily value.
C5_MonthlyNearDailyTimes30 ==
  est_call.called =>
    Abs(est_call.ret.monthly - est_call.ret.daily * 30) <= 15

C5_Witness ==
  /\ est_call.called
  /\ est_call.ret.daily > 0
  /\ est_call.ret.monthly # est_call.ret.daily * 30

\* C6: calculate_sales_estimates never raises, and returns (0.0, 0.0) for
\* every non-positive rank and for every failure inside the computation
\* (a rank that cannot be compared with a number).
C6_NeverRaises ==
  est_call.called =>
    /\ ~est_call.ret.raised
    /\ (~PositiveCall(est_call) =>
          est_call.ret.daily = 0 /\ est_call.ret.monthly = 0)

C6_Witness ==
  /\ est_call.called
  /\ est_call.bsr = PyNone
  /\ ~est_call.ret.raised
  /\ est_call.ret.daily = 0
  /\ est_call.ret.monthly = 0
  /\ est_prev.called
  /\ est_prev.bsr = PyInt(0)
  /\ est_prev.ret.daily = 0

---------------------------------------------------------------------------
(* Table selection.                                                         *)

Unrecognized(c) ==
  c.marketplace \notin KnownMarketplaces \/ c.book_type \notin KnownBookTypes

DefaultTable == conversion_tables["amazon.com"]["ebook"]

\* the table of the marketplace (amazon.com when unknown) and, inside it, of
\* the book type (ebook when unknown)
FallbackTable(book_type, marketplace) ==
  LET mk == IF marketplace \in KnownMarketplaces
            THEN marketplace ELSE "amazon.com"
      bt == IF book_type \in KnownBookTypes THEN book_type ELSE "ebook"
  IN  conversion_tables[mk][bt]

InvCall == [called |-> inv.called, book_type |-> book[1],
            marketplace |-> book[2]]

\* C7 as stated: whenever the marketplace or the book type is unknown, both
\* operations use the amazon.com ebook table, without an error.
C7_SingleDefaultTable ==
  /\ (est_call.called /\ Unrecognized(est_call)) =>
       est_call.table = DefaultTable /\ ~est_call.ret.raised
  /\ (inv.called /\ Unrecognized(InvCall)) => inv.table = DefaultTable

\* C7 amended: the fallback is per key: an unknown marketplace selects
\* amazon.com, and an unknown book type selects the ebook table of the
\* marketplace selected; no error is produced.
C7_PerKeyFallback ==
  /\ (est_call.called /\ Unrecognized(est_call)) =>
       /\ est_call.table =
            FallbackTable(est_call.book_type, est_call.marketplace)
       /\ ~est_call.ret.raised
  /\ (inv.called /\ Unrecognized(InvCall)) =>
       /\ inv.table = FallbackTable(book[1], book[2])
       /\ (inv.pc = "done" => inv.ret \in LowStart..HighStart)

C7_Witness ==
  /\ book = <<"audiobook", "amazon.co.uk">>
  /\ inv.called
  /\ inv.pc = "done"
  /\ inv.table = conversion_tables["amazon.co.uk"]["ebook"]
  /\ est_call.called
  /\ est_call.table = conversion_tables["amazon.co.uk"]["ebook"]
  /\ est_call.table # DefaultTable

---------------------------------------------------------------------------
(* Properties of get_bsr_for_target_sales.  The estimate compared with the  *)
(* target is the unrounded value of _interpolate_sales, as in the loop.     *)

InvDone == inv.called /\ inv.pc = "done"

\* estimate(rank) > target, for the table and target of the search
ExceedsTarget(rank) ==
  FloatGT(InterpolateInt(rank, inv.table), CentsToFloat(inv.target))

DailyCentsAt(rank) == RoundCents(InterpolateInt(rank, inv.table), 1, 0)

---------------------------------------------------------------------------
(* Properties of get_sales_trend_analysis.                                  *)

Analyzed == trend_out.called

\* C8: the trend is 'insufficient_data' for the empty history and for every
\* history of one entry, and for no history of two or more entries.
C8_InsufficientData ==
  Analyzed =>
    (trend_out.result.trend = "insufficient_data" <=> Len(trend_in) < 2)

C8_Witness ==
  /\ Analyzed
  /\ Len(trend_in) = 1
  /\ trend_out.result.trend = "insufficient_data"

\* the history has the given ranks, at strictly increasing timestamps
HistoryIs(ranks) ==
  /\ Len(trend_in) = Len(ranks)
  /\ \A i \in DOMAIN trend_in : trend_in[i].rank = ranks[i]
  /\ \A i \in DOMAIN trend_in : \A j \in DOMAIN trend_in :
       i < j => trend_in[i].timestamp < trend_in[j].timestamp

\* C9 as stated: the history [50000, 30000, 10000] at increasing timestamps
\* is classified 'rising', and every trend is one of rising, declining,
\* stable, insufficient_data.
C9_Rising ==
  Analyzed =>
    /\ trend_out.result.trend \in
         {"rising", "declining", "stable", "insufficient_data"}
    /\ (HistoryIs(<<50000, 30000, 10000>>) =>
          trend_out.result.trend = "rising")

\* C9 amended: the label of an upward trend is 'improving': that history is
\* classified 'improving', and every trend is one of improving, declining,
\* stable, insufficient_data.
C9_Improving ==
  Analyzed =>
    /\ trend_out.result.trend \in
         {"improving", "declining", "stable", "insufficient_data"}
    /\ (HistoryIs(<<50000, 30000, 10000>>) =>
          trend_out.result.trend = "improving")

C9_Witness ==
  /\ Analyzed
  /\ HistoryIs(<<50000, 30000, 10000>>)
  /\ trend_out.result.trend = "improving"

RECURSIVE Gcd(_, _)
Gcd(a, b) == IF b = 0 THEN a ELSE Gcd(b, a % b)

\* equality of two fractions with positive denominators
FracEq(x, y) ==
  LET gx == Gcd(Abs(x.num), x.den)
      gy == Gcd(Abs(y.num), y.den)
  IN  /\ x.num \div gx = y.num \div gy
      /\ x.den \div gx = y.den \div gy

\* the daily estimates of the history in timestamp order
Dailies == SalesData(SortedByTimestamp(trend_in))

\* sum of the daily estimates at the positions of I
DailySum(I) ==
  LET RECURSIVE Acc(_)
      Acc(J) == IF J = {} THEN 0
                ELSE LET j == CHOOSE k \in J : TRUE
                     IN  Dailies[j] + Acc(J \ {j})
  IN  Acc(I)

\* the positions of the last 3 points, and of the baseline
RecentPos == (Len(trend_in) - 2)..Len(trend_in)
BaselinePos == IF Len(trend_in) = 3 THEN {1} ELSE 1..(Len(trend_in) - 3)

\* 100 * (mean(recent) - mean(baseline)) / mean(baseline), baseline > 0
ExpectedChange ==
  LET r == DailySum(RecentPos)
      b == DailySum(BaselinePos)
      n == Cardinality(BaselinePos)
  IN  Frac((r * n - 3 * b) * 100, 3 * b)

TrendThresholds ==
  LET cp == trend_out.result.change_percent
      t == trend_out.result.trend
  IN  /\ (t = "declining" <=> FracLT(cp, -10))
      /\ (t = "stable" <=> (~FracLT(cp, -10) /\ ~FracGT(cp, 10)))

---------------------------------------------------------------------------
(* Histories of two records.                                                *)

\* C11 as stated: with exactly 2 points the trend is 'rising' only if the
\* later value exceeds the earlier one by more than 10 percent, 'declining'
\* only if it is below it by more than 10 percent, otherwise 'stable', and
\* change_percent is 0.
C11_PairThresholds ==
  (Analyzed /\ Len(trend_in) = 2) =>
    /\ (trend_out.result.trend = "rising" <=>
          10 * Dailies[2] > 11 * Dailies[1])
    /\ (trend_out.result.trend = "declining" <=>
          10 * Dailies[2] < 9 * Dailies[1])
    /\ trend_out.result.trend \in {"rising", "declining", "stable"}
    /\ trend_out.result.change_percent = Frac(0, 1)

\* C11 amended: with exactly 2 points the two values are compared without a
\* threshold: 'improving' iff the later value is greater than the earlier
\* one, 'declining' iff it is smaller, 'stable' iff they are equal, and
\* change_percent is 0.
C11_PairDirect ==
  (Analyzed /\ Len(trend_in) = 2) =>
    /\ (trend_out.result.trend = "improving" <=> Dailies[2] > Dailies[1])
    /\ (trend_out.result.trend = "declining" <=> Dailies[2] < Dailies[1])
    /\ (trend_out.result.trend = "stable" <=> Dailies[2] = Dailies[1])
    /\ trend_out.result.change_percent = Frac(0, 1)

\* a rise of less than 10 percent (1.87 to 1.94 a day) labelled 'improving'
C11_Witness ==
  /\ Analyzed
  /\ HistoryIs(<<50000, 48000>>)
  /\ Dailies[2] > Dailies[1]
  /\ 10 * Dailies[2] < 11 * Dailies[1]
  /\ trend_out.result.trend = "improving"
  /\ trend_out.result.change_percent = Frac(0, 1)

---------------------------------------------------------------------------
(* The calibration tables.                                                  *)

\* anchors positive integers, increasing in the sorted order the code uses,
\* values strictly decreasing along them, at least two anchors
WellFormed(table) ==
  LET bsr_points == SortedSeq(DOMAIN table)
  IN  /\ Len(bsr_points) >= 2
      /\ \A i \in DOMAIN bsr_points :
           bsr_points[i] \in Nat /\ bsr_points[i] > 0
      /\ \A i \in 1..(Len(bsr_points) - 1) :
           /\ bsr_points[i] < bsr_points[i + 1]
           /\ table[bsr_points[i]] > table[bsr_points[i + 1]]

\* C18: every table of conversion_tables, and so the table any call
\* selects, is well formed.
C18_TablesWellFormed ==
  /\ \A mk \in DOMAIN conversion_tables :
       \A bt \in DOMAIN conversion_tables[mk] :
         WellFormed(conversion_tables[mk][bt])
  /\ (est_call.called => WellFormed(est_call.table))

\* a call that interpolates between two anchors of a table
C18_Witness ==
  /\ est_call.called
  /\ est_call.table = conversion_tables["amazon.co.uk"]["hardcover"]
  /\ est_call.bsr = PyInt(11)
  /\ est_call.ret.daily < est_call.table[10] \div 100
  /\ est_call.ret.daily > est_call.table[100] \div 100

---------------------------------------------------------------------------
(* Termination of the binary search.                                        *)

---------------------------------------------------------------------------
(* Order of the history supplied.                                           *)

\* the records of h in ascending order of their (distinct) timestamps
ByTime(h) ==
  [i \in 1..Len(h) |->
     CHOOSE r \in {h[k] : k \in DOMAIN h} :
       Cardinality({k \in DOMAIN h : h[k].timestamp < r.timestamp}) = i - 1]

\* the record of h with the latest timestamp
Latest(h) ==
  CHOOSE r \in {h[k] : k \in DOMAIN h} :
    \A k \in DOMAIN h : h[k].timestamp <= r.timestamp

\* C20: the result for a history is the result for its records arranged by
\* timestamp, which is the same for every permutation of the history (for
\* up to 3 records every permutation is compared), and current_daily_sales
\* is the estimate of the record with the latest timestamp.
C20_OrderIndependent ==
  (Analyzed /\ Len(trend_in) >= 2) =>
    /\ trend_out.result = get_sales_trend_analysis(ByTime(trend_in))
    /\ (Len(trend_in) <= 3 =>
          \A p \in Permutations(DOMAIN trend_in) :
            get_sales_trend_analysis([i \in DOMAIN trend_in |->
                                        trend_in[p[i]]])
              = trend_out.result)
    /\ trend_out.result.current_daily_sales =
         EstimateOf(PyInt(Latest(trend_in).rank),
                    Latest(trend_in).book_type,
                    Latest(trend_in).marketplace).daily

\* a history supplied latest record first
C20_Witness ==
  /\ Analyzed
  /\ Len(trend_in) = 3
  /\ trend_in[1].timestamp > trend_in[2].timestamp
  /\ trend_in[2].timestamp > trend_in[3].timestamp
  /\ trend_in[1].rank = 10000
  /\ trend_in[3].rank = 50000
  /\ trend_out.result.trend = "improving"
  /\ trend_out.result.current_daily_sales =
       EstimateOf(PyInt(10000), book[1], book[2]).daily

---------------------------------------------------------------------------
(* Properties of the keyword scorer.                                        *)

\* the age of a timestamp at an instant, in half days
Age(last_updated, utcnow) == utcnow - last_updated[2]

\* C12: _is_data_fresh is false for a missing timestamp and otherwise true
\* exactly when the age in whole days is less than max_age_days, i.e. when
\* the age is less than max_age_days full days; with the default window a
\* timestamp 1 day old is fresh, one 7 days old or 8 days old is not.
C12_FreshIffYounger ==
  fresh_call.called =>
    LET age == Age(fresh_call.last_updated, fresh_call.utcnow)
    IN  /\ (fresh_call.last_updated = PyNone => ~fresh_call.ret)
        /\ (fresh_call.last_updated # PyNone =>
              (fresh_call.ret <=>
                 age < fresh_call.max_age_days * TicksPerDay))
        /\ ((fresh_call.last_updated # PyNone
             /\ fresh_call.max_age_days = 7) =>
              /\ (age = 1 * TicksPerDay => fresh_call.ret)
              /\ (age = 7 * TicksPerDay => ~fresh_call.ret)
              /\ (age = 8 * TicksPerDay => ~fresh_call.ret))

\* a timestamp exactly 7 days old, not fresh
C12_Witness ==
  /\ fresh_call.called
  /\ fresh_call.last_updated = PyDatetime(0)
  /\ fresh_call.utcnow = 7 * TicksPerDay
  /\ fresh_call.max_age_days = DefaultMaxAgeDays
  /\ ~fresh_call.ret

\* the table has a record for key that is less than 7 full days old
Stored(table, key) == \E i \in DOMAIN table : table[i].keyword_text = key

RowOf(table, key) ==
  table[CHOOSE i \in DOMAIN table : table[i].keyword_text = key]

WithinWindow(table, key, utcnow) ==
  /\ Stored(table, key)
  /\ Age(RowOf(table, key).last_updated, utcnow) < 7 * TicksPerDay

Metrics(r) ==
  [search_volume |-> r.search_volume,
   competition_score |-> r.competition_score,
   opportunity_score |-> r.opportunity_score]

\* C13: a call for a keyword whose stored record is within the window
\* returns that record, draws no random value and leaves the table as it
\* was; the next call in a row for the same keyword, still within the
\* window, returns what the previous one returned.
C13_CacheHit ==
  [][(kw_call' # kw_call) =>
       LET key == Lower(kw_call'.keyword_text)
       IN  WithinWindow(keywords, key, now) =>
             /\ kw_call'.ret = to_dict(RowOf(keywords, key))
             /\ kw_call'.drawn = <<>>
             /\ keywords' = keywords
             /\ ((kw_call.called /\ Lower(kw_call.keyword_text) = key) =>
                   kw_call'.ret = kw_call.ret)]_vars

\* the record stored for "python" at 0 is returned for "Python" 6.5 days
\* later
C13_Witness ==
  /\ kw_call.called
  /\ kw_call.keyword_text = KwPythonCapital
  /\ kw_call.utcnow = 13
  /\ kw_call.drawn = <<>>
  /\ kw_call.ret.keyword_text = KwPython
  /\ kw_call.ret.last_updated = PyDatetime(0)
  /\ RowOf(keywords, KwPython).last_updated = PyDatetime(0)

\* C14: a call for a keyword whose stored record is absent or 7 days old or
\* older draws new random values, returns the three metrics computed from
\* them with last_updated the current time, stores them under the lowercase
\* keyword and leaves the other records alone; the record is within the
\* window right after the call.
C14_StaleRecomputed ==
  [][(kw_call' # kw_call) =>
       LET key == Lower(kw_call'.keyword_text)
       IN  ~WithinWindow(keywords, key, now) =>
             /\ kw_call'.drawn \in AnalyzeJitters
             /\ ~kw_call'.ret.none
             /\ Metrics(kw_call'.ret) =
                  FreshAnalysis(kw_call'.keyword_text, kw_call'.drawn[1],
                                kw_call'.drawn[2])
             /\ kw_call'.ret.last_updated = PyDatetime(now)
             /\ Stored(keywords', key)
             /\ kw_call'.ret = to_dict(RowOf(keywords', key))
             /\ WithinWindow(keywords', key, now')
             /\ \A i \in DOMAIN keywords :
                  keywords[i].keyword_text # key =>
                    (i \in DOMAIN keywords'
                     /\ keywords'[i] = keywords[i])]_vars

\* the first record of the table, analysed again 7 days after a second
\* record was stored
C14_Witness ==
  /\ kw_call.called
  /\ kw_call.utcnow = 14
  /\ kw_call.drawn = <<200, 70>>
  /\ kw_call.ret.id = 1
  /\ kw_call.ret.last_updated = PyDatetime(14)
  /\ Len(keywords) = 2
  /\ keywords[2].id = 2
  /\ keywords[2].last_updated = PyDatetime(7)

\* C15: for every keyword and every value of the jitters the competition
\* score is in [0, 1] and the opportunity score is in [0, 1].
C15_ScoresInUnitInterval ==
  score_call.called =>
    /\ score_call.competition_score >= 0
    /\ score_call.competition_score <= 10000
    /\ score_call.opportunity_score >= 0
    /\ score_call.opportunity_score <= 1000

\* a one-word keyword with the largest jitter: the competition is clamped
\* to 1
C15_Witness ==
  /\ score_call.called
  /\ score_call.keyword = KwAllCommon
  /\ score_call.jitter_volume = 200
  /\ score_call.jitter_competition = 130
  /\ score_call.search_volume > 10000
  /\ score_call.competition_score = 10000
  /\ score_call.opportunity_score = 600

\* C16: analyze_keyword called with the empty keyword returns a neutral
\* result (None, or metrics that are all zero), and stores no record for it.
C16_EmptyKeywordNeutral ==
  (kw_call.called /\ kw_call.keyword_text = KwEmpty) =>
    /\ \/ kw_call.ret.none
       \/ /\ kw_call.ret.search_volume = 0
          /\ kw_call.ret.competition_score = 0
          /\ kw_call.ret.opportunity_score = 0
    /\ ~Stored(keywords, KwEmpty)

\* the result a finished call of thread t could have had when run alone
\* from the table it read: the stored record if within the window, else the
\* metrics of a fresh analysis
AsAlone(t) ==
  LET c == threads[t]
      key == Lower(c.keyword_text)
  IN  IF c.existing_keyword.found
         /\ Age(c.existing_keyword.row.last_updated, c.utcnow)
              < 7 * TicksPerDay
      THEN c.ret = to_dict(c.existing_keyword.row)
      ELSE /\ ~c.ret.none
           /\ \E j \in AnalyzeJitters :
                Metrics(c.ret) = FreshAnalysis(c.keyword_text, j[1], j[2])

\* C17: the calibration tables are constants that no call changes, and
\* every call that ran concurrently with others returns a result it could
\* return when run alone.
C17_ConcurrentAsAlone ==
  \A t \in Threads : threads[t].pc = "done" => AsAlone(t)

---------------------------------------------------------------------------
(* C21: the common-word multiplier of _estimate_search_volume.             *)

\* the number of places of s at which word occurs
Occurrences(word, s) ==
  Cardinality({i \in 0..(Len(s) - Len(word)) :
                 SubSeq(s, i + 1, i + Len(word)) = word})

\* the number of occurrences of common words in the lowercased keyword,
\* repeated occurrences of one word included
TotalOccurrences(keyword) ==
  LET RECURSIVE Sum(_)
      Sum(w) == IF w = 0 THEN 0
                ELSE Occurrences(common_words[w], Lower(keyword)) + Sum(w - 1)
  IN  Sum(Len(common_words))

\* the number of common words that occur at least once in the lowercased
\* keyword
DistinctTerms(keyword) ==
  Cardinality({w \in DOMAIN common_words :
                 Occurrences(common_words[w], Lower(keyword)) >= 1})

\* max(10, int(int(1000 * length_factor * 1.5 ^ k) * jitter)), jitter in
\* hundredths
VolumeWithMultiplier(keyword, k, jitter) ==
  LET length_factor == LengthFactor(WordCount(keyword))
      num == 100 * length_factor.tenths * 3^k
      base == IF length_factor.below /\ num % (2^k) = 0
              THEN num \div (2^k) - 1
              ELSE num \div (2^k)
      v == (base * jitter) \div 100
  IN  IF v > 10 THEN v ELSE 10

\* C21 as stated: the volume returned is the one obtained with the
\* multiplier 1.5 raised to the number of occurrences of common words in the
\* keyword, every repeated occurrence of one word counted.
C21_PerOccurrence ==
  score_call.called =>
    score_call.search_volume
      = VolumeWithMultiplier(score_call.keyword,
                             TotalOccurrences(score_call.keyword),
                             score_call.jitter_volume)

\* C21 amended: the volume returned is the one obtained with the multiplier
\* 1.5 raised to the number of distinct common words that occur in the
\* lowercased keyword as substrings: a repeated word counts once, a common
\* word inside another word counts, and a keyword with no common word has
\* multiplier 1.
C21_PerDistinctTerm ==
  score_call.called =>
    /\ score_call.search_volume
         = VolumeWithMultiplier(score_call.keyword,
                                DistinctTerms(score_call.keyword),
                                score_call.jitter_volume)
    /\ (TotalOccurrences(score_call.keyword) = 0
          => score_call.search_volume
               = VolumeWithMultiplier(score_call.keyword, 0,
                                      score_call.jitter_volume))

\* "book book" scored without jitter: two occurrences of one common word,
\* volume 1000 * 0.8 * 1.5 = 1200
C21_Witness ==
  /\ score_call.called
  /\ score_call.keyword = KwBookBook
  /\ score_call.jitter_volume = 100
  /\ TotalOccurrences(score_call.keyword) = 2
  /\ DistinctTerms(score_call.keyword) = 1
  /\ score_call.search_volume = 1200

---------------------------------------------------------------------------
(* C22: three or more points and a baseline of 0.                          *)

\* every point of the baseline has the daily estimate 0.0
ZeroBaseline == \A i \in BaselinePos : Dailies[i] = 0

\* C22: with 3 or more points and a baseline whose estimated daily sales
\* are 0.0, change_percent is 0 and the trend is 'stable' whatever the last
\* 3 values are; a history that moves from a rank whose estimate is 0.0 to
\* much better ranks is not classified 'improving'.
C22_ZeroBaselineStable ==
  (Analyzed /\ Len(trend_in) >= 3 /\ ZeroBaseline) =>
    /\ trend_out.result.change_percent.num = 0
    /\ trend_out.result.trend = "stable"
    /\ (Dailies[Len(trend_in)] > 0 =>
          trend_out.result.trend # "improving")

\* a hardcover of amazon.co.uk that moves from rank 2000000 (0.0 a day) to
\* rank 10000, reported 'stable' with change_percent 0
C22_Witness ==
  /\ Analyzed
  /\ book = <<"hardcover", "amazon.co.uk">>
  /\ Len(trend_in) = 3
  /\ SortedByTimestamp(trend_in)[1].rank = 2000000
  /\ SortedByTimestamp(trend_in)[2].rank = 10000
  /\ SortedByTimestamp(trend_in)[3].rank = 10000
  /\ Dailies[1] = 0
  /\ Dailies[3] > 0
  /\ trend_out.result.change_percent.num = 0
  /\ trend_out.result.trend = "stable"

---------------------------------------------------------------------------
(* C23: concurrent calls for one keyword.                                   *)

\* thread t found no row for its keyword and has yet to commit its INSERT,
\* and a row for that keyword has been committed since: the race is lost
RaceLost(t) ==
  /\ threads[t].pc = "commit"
  /\ ~threads[t].existing_keyword.found
  /\ Stored(keywords, Lower(threads[t].keyword_text))

\* C23: in every interleaving of concurrent calls the table holds at most
\* one row for each lowercase keyword_text, whatever the case of the
\* keywords passed; a call that lost the race between its query and its
\* INSERT ends by returning None and leaves the table as it is.
C23_OneRowPerKeyword ==
  /\ [](\A i \in DOMAIN keywords : \A j \in DOMAIN keywords :
          keywords[i].keyword_text = keywords[j].keyword_text => i = j)
  /\ [](\A i \in DOMAIN keywords :
          keywords[i].keyword_text = Lower(keywords[i].keyword_text))
  /\ [][\A t \in Threads :
          (RaceLost(t) /\ threads'[t] # threads[t]) =>
            /\ threads'[t].pc = "done"
            /\ threads'[t].ret = ReturnedNone
            /\ keywords' = keywords]_vars

\* "python" and "Python" analysed concurrently on an empty table: one row,
\* stored for "python", and None returned to the other call
C23_Witness ==
  /\ threads[1].pc = "done"
  /\ threads[2].pc = "done"
  /\ threads[1].keyword_text = KwPython
  /\ threads[2].keyword_text = KwPythonCapital
  /\ ~threads[1].existing_keyword.found
  /\ ~threads[2].existing_keyword.found
  /\ threads[1].ret = ReturnedNone
  /\ ~threads[2].ret.none
  /\ Len(keywords) = 1
  /\ keywords[1].keyword_text = KwPython

---------------------------------------------------------------------------
(* C24: the retry loop of _make_request.                                    *)

RequestDone == request.pc = "done"

\* the i-th GET ended with status 200
Ok(i) ==
  /\ ~request.gets[i].outcome.raised
  /\ request.gets[i].outcome.status_code = 200

\* the number of passes range(max_retries) allows
Passes(max_retries) == IF max_retries > 0 THEN max_retries ELSE 0

\* C24: at most max_retries GETs are made, one after the other; the call
\* ends at the first GET whose status is 200 and returns its response; it
\* returns None once max_retries GETs have failed, by a status other than
\* 200 or by a request exception; it returns no response of another status
\* and raises no request exception.
C24_RetryLoop ==
  /\ request.pc # "idle" =>
       /\ Len(request.gets) <= Passes(request.max_retries)
       /\ \A i \in DOMAIN request.gets : request.gets[i].attempt = i - 1
       /\ \A i \in DOMAIN request.gets :
            Ok(i) => (RequestDone /\ i = Len(request.gets))
  /\ RequestDone =>
       /\ ~request.raised
       /\ IF \E i \in DOMAIN request.gets : Ok(i)
          THEN /\ ~request.ret.none
               /\ request.ret.status_code = 200
               /\ request.ret.attempt = Len(request.gets) - 1
          ELSE /\ request.ret.none
               /\ Len(request.gets) = Passes(request.max_retries)

\* a 503, a request exception and then a 200, whose response is returned
C24_Witness ==
  /\ RequestDone
  /\ request.max_retries = DefaultMaxRetries
  /\ Len(request.gets) = 3
  /\ request.gets[1].outcome = Status(503)
  /\ request.gets[2].outcome = RequestException
  /\ request.gets[3].outcome = Status(200)
  /\ request.ret = Response(2, 200)

\* three GETs that fail, the last by an exception, and None returned
C24_WitnessNone ==
  /\ RequestDone
  /\ request.max_retries = DefaultMaxRetries
  /\ Len(request.gets) = 3
  /\ request.gets[1].outcome = Status(404)
  /\ request.gets[3].outcome = RequestException
  /\ request.ret.none

=============================================================================
